---- MODULE Spec2Model ----
(***************************************************************************)
(* Model of src/src/spsc.rs: a fixed-capacity single-producer /            *)
(* single-consumer ring queue over a raw storage block with two atomic     *)
(* cursors.  Every index load, slot access and index store of write,       *)
(* read, read_all, front_ptr, pop_front and the diagnostics is one step,   *)
(* so the producer thread and the consumer thread interleave at that       *)
(* granularity.                                                            *)
(*                                                                         *)
(* Memory order.  A thread reads its own index as it last stored it.  The  *)
(* load of the other thread's index is an Acquire load and every index     *)
(* store a Release store; no access is SeqCst.  A Release store therefore  *)
(* reaches the other thread some time after the storing thread has moved   *)
(* on, and an Acquire load returns the newest store that has reached the   *)
(* loading thread, which may be older than the newest store made: both     *)
(* threads can miss each other's latest store at once.  read_seen is the   *)
(* read_index that has reached the producer, write_seen the write_index    *)
(* that has reached the consumer; the stores of one thread reach the       *)
(* other in the order they were made (ReadIndexVisible,                    *)
(* WriteIndexVisible).  A load that sees a stored index also sees every    *)
(* slot access made before that store.                                     *)
(*                                                                         *)
(* Drop runs only when neither thread is inside a call (it takes           *)
(* &mut self).  A pop_front that panics unwinds out of the call and        *)
(* leaves the queue usable.                                                *)
(***************************************************************************)
EXTENDS Integers, Sequences, FiniteSets, TLC

\* ---- bounds of the model ------------------------------------------------
MaxSize == 3      \* largest capacity_slots passed to new()
MaxWrites == 3    \* values the producer offers in a bounded run
MaxBatch == 3     \* longest Vec passed to write_all

\* ---- constants of the program ------------------------------------------
VecCapacity == 32 \* line 77: Vec::with_capacity(32)

\* a queue that holds one element more than the Vec of read_all has room
\* for at first
DrainSlots == VecCapacity + 2

\* ---- encodings ----------------------------------------------------------
Uninit == 0       \* a slot that holds no live element
None == 0         \* Option::None of read()
NoSlot == -1      \* Option::None of front_ptr()
NoRet == <<"none", 0>>   \* the thread is inside a call, or made none yet
Panicked == <<"panic", 0>>   \* the call ended in a panic (pop_front)
Threads == {"producer", "consumer"}

\* ---- pure functions of the code -----------------------------------------
\* faulty variants of the index advance: the wrap-around is left out; the
\* index advances by two slots
NextRecord_nowrap(i, n) == i + 1

NextRecord_skip(i, n) == (i + 2) % n

\* (i + 1) % self.size
NextRecord(i, n) == (i + 1) % n

is_empty_of(r, w) == r = w

\* faulty variant of is_full: the increment of write_index is left out
is_full_of_noinc(r, w, n) == w % n = r

is_full_of(r, w, n) == NextRecord(w, n) = r

\* faulty variants of size_guess: the wrapped branch counts the usable
\* capacity instead of the slots; the wrapped branch is a plain difference
size_guess_of_wrapcap(r, w, n) == IF w >= r THEN w - r ELSE (n - 1) - r + w

size_guess_of_nowrap(r, w, n) == IF w >= r THEN w - r ELSE r - w

size_guess_of(r, w, n) == IF w >= r THEN w - r ELSE n - r + w

capacity_of(n) == n - 1

\* the slot indices visited by the loop of Drop, from i up to (not
\* including) end, in visiting order
RECURSIVE DropRange(_, _, _)
DropRange(i, end, n) ==
  IF i = end THEN <<>> ELSE <<i>> \o DropRange(NextRecord(i, n), end, n)

SeqToSet(s) == {s[k] : k \in 1..Len(s)}

IsPrefix(s, t) == Len(s) <= Len(t) /\ \A k \in 1..Len(s) : s[k] = t[k]

VARIABLES
  \* the queue object
  size,          \* self.size (capacity_slots)
  needs_drop,    \* mem::needs_drop::<T>() of the element type
  alloc,         \* outcome of Layout::array and alloc in new()
  records,       \* the storage block: slot -> Uninit or the live value
  read_index,
  write_index,
  storage,       \* "none" | "allocated" | "freed"
  read_seen,     \* the newest read_index that has reached the producer
  write_seen,    \* the newest write_index that has reached the consumer
  phase,         \* "new_panicked" | "alive" | "dropped" | "aborted"
  \* the two threads
  pc,            \* thread -> position inside its current call
  ret,           \* thread -> <<operation, value>> of its last return
  d,             \* thread -> first index loaded by a running diagnostic
  \* locals of the producer
  p_op, p_cw, p_next, p_val, p_batch,
  \* locals of the consumer
  c_op, c_cr, c_next, c_rec, frames,
  \* the workload and the observers (history, not program state)
  unlimited,     \* TRUE: the producer never runs out of values, and
                 \* the observers below are not recorded
  offered,       \* values offered to write so far
  written,       \* values whose write returned true, in order
  delivered,     \* values removed by the consumer (read or pop_front)
  released,      \* value -> times moved out or destroyed
  write_results, \* return value of every write call, in order
  wa_results,    \* return values of the writes of the current write_all
  c_quiet,       \* the producer took no step since the consumer's call
  c_snap         \* queue contents when the current read_all began

qvars == <<size, needs_drop, alloc, records, read_index, write_index, storage,
           phase>>
mvars == <<read_seen, write_seen>>
tvars == <<pc, ret, d>>
pvars == <<p_op, p_cw, p_next, p_val, p_batch>>
cvars == <<c_op, c_cr, c_next, c_rec, frames>>
gvars == <<unlimited, offered, written, delivered, released, write_results,
           wa_results, c_quiet, c_snap>>
vars == <<qvars, mvars, tvars, pvars, cvars, gvars>>

\* ---- observers ----------------------------------------------------------
Rec(s, v) == IF unlimited THEN s ELSE Append(s, v)

Bump(rel, v) ==
  IF unlimited \/ v = Uninit THEN rel ELSE [rel EXCEPT ![v] = @ + 1]

\* the values in the slots [read_index, write_index), oldest first
Contents ==
  LET r == DropRange(read_index, write_index, size)
  IN [k \in 1..Len(r) |-> records[r[k]]]

\* ---- construction -------------------------------------------------------
\* what lines 25-29 of new can come to for an element type and a size:
\* the block is allocated; Layout::array fails ("invalid layout": the
\* block would exceed isize::MAX bytes); alloc returns null ("allocation
\* failed").  For a zero-sized element type the layout has size 0, for
\* which the result of alloc is not defined: any of the outcomes.
AllocOutcomes == {"ok", "invalid_layout", "null"}

\* line 24: the assertion of new on the slot count
SizeAccepted(n) == n >= 2

\* new returns a queue only if the assertion (line 24), the layout (line
\* 25) and the allocation (lines 26-29) all succeed
NewReturns(n, a) == SizeAccepted(n) /\ a = "ok"

\* faulty variant of new: the assertion accepts a single slot
New_noassert(n, nd, a) ==
  /\ size = n
  /\ needs_drop = nd
  /\ alloc = IF n >= 1 THEN a ELSE "not_reached"
  /\ records = [i \in 0..(n - 1) |-> Uninit]
  /\ read_index = 0
  /\ write_index = 0
  /\ storage = IF n >= 1 /\ a = "ok" THEN "allocated" ELSE "none"
  /\ phase = IF n >= 1 /\ a = "ok" THEN "alive" ELSE "new_panicked"

\* Spsc::new(n) for an element type with needs_drop = nd, where the layout
\* and the allocation come to a
New(n, nd, a) ==
  /\ size = n
  /\ needs_drop = nd
  /\ alloc = IF SizeAccepted(n) THEN a ELSE "not_reached"
  /\ records = [i \in 0..(n - 1) |-> Uninit]
  /\ read_index = 0
  /\ write_index = 0
  /\ storage = IF NewReturns(n, a) THEN "allocated" ELSE "none"
  /\ phase = IF NewReturns(n, a) THEN "alive" ELSE "new_panicked"

\* the largest value a run offers
MaxValue == IF DrainSlots > MaxWrites THEN DrainSlots ELSE MaxWrites

InitWith(sizes, u) ==
  /\ \E n \in sizes, nd \in BOOLEAN, a \in AllocOutcomes : New(n, nd, a)
  /\ read_seen = 0
  /\ write_seen = 0
  /\ pc = [t \in Threads |-> "idle"]
  /\ ret = [t \in Threads |-> NoRet]
  /\ d = [t \in Threads |-> 0]
  /\ p_op = "none" /\ p_cw = 0 /\ p_next = 0 /\ p_val = 0 /\ p_batch = <<>>
  /\ c_op = "none" /\ c_cr = 0 /\ c_next = 0 /\ c_rec = 0 /\ frames = <<>>
  /\ unlimited = u
  /\ offered = 0
  /\ written = <<>>
  /\ delivered = <<>>
  /\ released = [v \in 1..MaxValue |-> 0]
  /\ write_results = <<>>
  /\ wa_results = <<>>
  /\ c_quiet = TRUE
  /\ c_snap = <<>>

Init == InitWith(0..MaxSize, FALSE)

InitLive == InitWith(0..MaxSize, TRUE)

\* ---- index loads and stores ---------------------------------------------
\* what a load of read_index by thread t returns: the consumer reads its
\* own store (lines 64, 85, 94, 108, 113, 117), the producer the newest
\* store that has reached it (lines 45, 108, 113, 117)
LoadReadIndex(t) == IF t = "consumer" THEN read_index ELSE read_seen

\* what a load of write_index by thread t returns: the producer reads its
\* own store (lines 43, 108, 112, 118), the consumer the newest store that
\* has reached it (lines 65, 86, 97, 108, 112, 118)
LoadWriteIndex(t) == IF t = "producer" THEN write_index ELSE write_seen

\* ---- the producer thread ------------------------------------------------
ProducerAt(l) == phase = "alive" /\ pc["producer"] = l

\* values offered in a bounded run: MaxWrites, and one round of the slots
\* for a queue larger than MaxSize
OfferLimit == IF size > MaxSize THEN size ELSE MaxWrites

CanOffer(k) == unlimited \/ offered + k <= OfferLimit

\* the k-th of the next values the caller passes in: fresh values in a
\* bounded run, the same value again and again in an unlimited one
OfferValue(k) == IF unlimited THEN 1 ELSE offered + k

Offer(k) == IF unlimited THEN offered ELSE offered + k

\* a step of the producer ends the consumer's quiet period
Disturbed == IF unlimited THEN c_quiet ELSE FALSE

\* faulty variants of the full test: the test is left out; the queue is
\* reported full one slot early
WriteFull_never(next, r) == FALSE

WriteFull_early(next, r) == next = r \/ NextRecord(next, size) = r

\* line 45: the queue is full when the next write position is the read index
WriteFull(next, r) == next = r

\* lines 43-44: load write_index (relaxed) and compute next_record
WriteBegin ==
  /\ p_cw' = write_index
  /\ p_next' = NextRecord(write_index, size)

\* the return of write(): back to the caller, or to the loop of write_all
WriteReturn(b) ==
  /\ write_results' = Rec(write_results, b)
  /\ p_cw' = 0 /\ p_next' = 0 /\ p_val' = 0
  /\ IF p_op = "write"
       THEN /\ pc' = [pc EXCEPT !["producer"] = "idle"]
            /\ ret' = [ret EXCEPT !["producer"] = <<"write", b>>]
            /\ p_op' = "none"
            /\ wa_results' = wa_results
       ELSE /\ pc' = [pc EXCEPT !["producer"] = "wa_next"]
            /\ ret' = ret
            /\ p_op' = p_op
            /\ wa_results' = Rec(wa_results, b)

\* write(record), lines 42-44
WriteLoadWrite ==
  /\ ProducerAt("idle")
  /\ CanOffer(1)
  /\ p_op' = "write"
  /\ p_val' = OfferValue(1)
  /\ offered' = Offer(1)
  /\ WriteBegin
  /\ ret' = [ret EXCEPT !["producer"] = NoRet]
  /\ pc' = [pc EXCEPT !["producer"] = "w_check"]
  /\ c_quiet' = Disturbed
  /\ UNCHANGED <<qvars, d, p_batch, cvars, mvars, unlimited, written,
                 delivered, released, write_results, wa_results, c_snap>>

\* faulty variant of the full branch of write: the record is stored into
\* the slot before the full test rejects it
WriteLoadRead_clobber ==
  /\ ProducerAt("w_check")
  /\ c_quiet' = Disturbed
  /\ IF ~WriteFull(p_next, LoadReadIndex("producer"))
       THEN /\ pc' = [pc EXCEPT !["producer"] = "w_construct"]
            /\ UNCHANGED <<ret, pvars, write_results, wa_results, records,
                           released>>
       ELSE /\ WriteReturn(FALSE)
            /\ records' = [records EXCEPT ![p_cw] = p_val]
            /\ released' = Bump(released, p_val)
            /\ UNCHANGED p_batch
  /\ UNCHANGED <<size, needs_drop, alloc, read_index, write_index, storage,
                 phase, d, cvars, mvars, unlimited, offered, written,
                 delivered, c_snap>>

\* write, line 45: load read_index (acquire) and branch; lines 51-53 on
\* full: write returns false, and the record it was given (by value) is
\* destroyed at the return
WriteLoadRead ==
  /\ ProducerAt("w_check")
  /\ c_quiet' = Disturbed
  /\ IF ~WriteFull(p_next, LoadReadIndex("producer"))
       THEN /\ pc' = [pc EXCEPT !["producer"] = "w_construct"]
            /\ UNCHANGED <<ret, pvars, write_results, wa_results, released>>
       ELSE /\ WriteReturn(FALSE)
            /\ released' = Bump(released, p_val)
            /\ UNCHANGED p_batch
  /\ UNCHANGED <<qvars, d, cvars, mvars, unlimited, offered, written,
                 delivered, c_snap>>

\* write, line 47: ptr::write(self.records.add(current_write), record)
WriteConstruct ==
  /\ ProducerAt("w_construct")
  /\ records' = [records EXCEPT ![p_cw] = p_val]
  /\ pc' = [pc EXCEPT !["producer"] = "w_store"]
  /\ c_quiet' = Disturbed
  /\ UNCHANGED <<size, needs_drop, alloc, read_index, write_index, storage,
                 phase, ret, d, pvars, cvars, mvars, unlimited, offered,
                 written, delivered, released, write_results, wa_results,
                 c_snap>>

\* write, lines 49-50: store write_index (release) and return true
WriteStore ==
  /\ ProducerAt("w_store")
  /\ write_index' = p_next
  /\ written' = Rec(written, p_val)
  /\ WriteReturn(TRUE)
  /\ c_quiet' = Disturbed
  /\ UNCHANGED <<size, needs_drop, alloc, records, read_index, storage, phase,
                 d, p_batch, cvars, mvars, unlimited, offered, delivered,
                 released, c_snap>>

\* write_all(records), line 57: the call with a Vec of len values
WriteAllCall(len) ==
  /\ ProducerAt("idle")
  /\ CanOffer(len)
  /\ p_op' = "write_all"
  /\ p_batch' = [k \in 1..len |-> OfferValue(k)]
  /\ offered' = Offer(len)
  /\ wa_results' = <<>>
  /\ ret' = [ret EXCEPT !["producer"] = NoRet]
  /\ pc' = [pc EXCEPT !["producer"] = "wa_next"]
  /\ c_quiet' = Disturbed
  /\ UNCHANGED <<qvars, d, p_cw, p_next, p_val, cvars, mvars, unlimited,
                 written, delivered, released, write_results, c_snap>>

\* line 58: does the loop of write_all go on after these write results
WriteAllContinues(results, rest) == rest # <<>>

\* write_all, lines 58-60: the next iteration of the for loop calls write
\* (up to its load of write_index), or the loop ends and write_all returns
WriteAllNext ==
  /\ ProducerAt("wa_next")
  /\ c_quiet' = Disturbed
  /\ IF WriteAllContinues(wa_results, p_batch)
       THEN /\ p_val' = Head(p_batch)
            /\ p_batch' = Tail(p_batch)
            /\ WriteBegin
            /\ pc' = [pc EXCEPT !["producer"] = "w_check"]
            /\ UNCHANGED <<ret, p_op>>
       ELSE /\ pc' = [pc EXCEPT !["producer"] = "idle"]
            /\ ret' = [ret EXCEPT !["producer"] = <<"write_all", 0>>]
            /\ p_op' = "none"
            /\ p_batch' = <<>>
            /\ UNCHANGED <<p_cw, p_next, p_val>>
  /\ UNCHANGED <<qvars, d, cvars, mvars, unlimited, offered, written,
                 delivered, released, write_results, wa_results, c_snap>>

\* ---- the consumer thread ------------------------------------------------
ConsumerAt(l) == phase = "alive" /\ pc["consumer"] = l

\* faulty variant of the empty test: the write index is taken one too far
ReadEmpty_off(cur, w) == cur = NextRecord(w, size)

\* lines 65, 86, 97: the queue is empty when the two indices are equal
ReadEmpty(cur, w) == cur = w

\* no concurrent activity: the producer is inside no call and every store
\* it made has reached the consumer
ProducerQuiet == pc["producer"] = "idle" /\ write_seen = write_index

\* what the observers note when the consumer begins a call
ConsumerCall(snap) ==
  /\ c_quiet' = IF unlimited THEN c_quiet ELSE ProducerQuiet
  /\ c_snap' = IF unlimited THEN c_snap ELSE snap

\* faulty variant of the push: the frame is inserted at the front
Push_front(fs, v) == <<v>> \o fs

\* frames.push(frame), line 79
Push(fs, v) == Append(fs, v)

\* Vec::push, line 79: the Vec must grow when its length has reached its
\* capacity, which is VecCapacity at first (line 77) and doubles with each
\* growth
RECURSIVE VecFullFrom(_, _)
VecFullFrom(cap, len) ==
  IF len < cap THEN FALSE
  ELSE IF len = cap THEN TRUE
  ELSE VecFullFrom(2 * cap, len)

VecFull(len) == VecFullFrom(VecCapacity, len)

\* read(), lines 63-64: load read_index (relaxed)
ReadLoadRead ==
  /\ ConsumerAt("idle")
  /\ c_op' = "read"
  /\ c_cr' = read_index
  /\ ret' = [ret EXCEPT !["consumer"] = NoRet]
  /\ pc' = [pc EXCEPT !["consumer"] = "r_check"]
  /\ ConsumerCall(<<>>)
  /\ UNCHANGED <<qvars, d, pvars, c_next, c_rec, frames, mvars, unlimited,
                 offered, written, delivered, released, write_results,
                 wa_results>>

\* line 77: Vec::with_capacity(32) allocates room for 32 elements, and
\* line 79: a push into a full Vec allocates a larger block; when the
\* allocation fails the process is aborted (handle_alloc_error)
VecOutcomes == {"ok", "alloc_failed"}

\* read_all(), lines 77-78: a new Vec, then the first read up to its load
\* of read_index.  A failed allocation of the Vec ends the process: no
\* call returns and no step of either thread follows.
ReadAllCall(v) ==
  /\ ConsumerAt("idle")
  /\ IF v = "ok"
       THEN /\ c_op' = "read_all"
            /\ frames' = <<>>
            /\ c_cr' = read_index
            /\ ret' = [ret EXCEPT !["consumer"] = NoRet]
            /\ pc' = [pc EXCEPT !["consumer"] = "r_check"]
            /\ ConsumerCall(Contents)
            /\ UNCHANGED phase
       ELSE /\ phase' = "aborted"
            /\ UNCHANGED <<c_op, frames, c_cr, ret, pc, c_quiet, c_snap>>
  /\ UNCHANGED <<size, needs_drop, alloc, records, read_index, write_index,
                 storage, d, pvars, c_next, c_rec, mvars, unlimited, offered,
                 written, delivered, released, write_results, wa_results>>

\* read_all, line 78: the loop calls read again (its load of read_index)
ReadAllNext ==
  /\ ConsumerAt("ra_next")
  /\ c_cr' = read_index
  /\ pc' = [pc EXCEPT !["consumer"] = "r_check"]
  /\ UNCHANGED <<qvars, ret, d, pvars, c_op, c_next, c_rec, frames, mvars,
                 gvars>>

\* read, lines 65-68: load write_index (acquire) and branch.  On empty,
\* read returns None; inside read_all that ends the loop (lines 78, 81).
ReadLoadWrite ==
  /\ ConsumerAt("r_check")
  /\ IF ReadEmpty(c_cr, LoadWriteIndex("consumer"))
       THEN /\ pc' = [pc EXCEPT !["consumer"] = "idle"]
            /\ ret' = [ret EXCEPT !["consumer"] =
                         IF c_op = "read" THEN <<"read", None>>
                                          ELSE <<"read_all", frames>>]
            /\ c_op' = "none" /\ c_cr' = 0 /\ frames' = <<>>
            /\ UNCHANGED c_next
       ELSE /\ c_next' = NextRecord(c_cr, size)
            /\ pc' = [pc EXCEPT !["consumer"] = "r_move"]
            /\ UNCHANGED <<ret, c_op, c_cr, frames>>
  /\ UNCHANGED <<qvars, d, pvars, c_rec, mvars, gvars>>

\* read, line 69: ptr::read(self.records.add(current_read)) moves the
\* element out of the slot
ReadMove ==
  /\ ConsumerAt("r_move")
  /\ c_rec' = records[c_cr]
  /\ records' = [records EXCEPT ![c_cr] = Uninit]
  /\ released' = Bump(released, records[c_cr])
  /\ pc' = [pc EXCEPT !["consumer"] = "r_store"]
  /\ UNCHANGED <<size, needs_drop, alloc, read_index, write_index, storage,
                 phase, ret, d, pvars, c_op, c_cr, c_next, frames, mvars,
                 unlimited, offered, written, delivered, write_results,
                 wa_results, c_quiet, c_snap>>

\* read, lines 70-71: store read_index (release) and return Some(record),
\* to the caller or to the loop of read_all
ReadStore ==
  /\ ConsumerAt("r_store")
  /\ read_index' = c_next
  /\ delivered' = Rec(delivered, c_rec)
  /\ IF c_op = "read"
       THEN /\ pc' = [pc EXCEPT !["consumer"] = "idle"]
            /\ ret' = [ret EXCEPT !["consumer"] = <<"read", c_rec>>]
            /\ c_op' = "none"
            /\ c_rec' = 0
       ELSE /\ pc' = [pc EXCEPT !["consumer"] = "ra_push"]
            /\ ret' = ret
            /\ c_op' = c_op
            /\ c_rec' = c_rec
  /\ c_cr' = 0 /\ c_next' = 0
  /\ UNCHANGED <<size, needs_drop, alloc, records, write_index, storage,
                 phase, d, pvars, frames, mvars, unlimited, offered, written,
                 released, write_results, wa_results, c_quiet, c_snap>>

\* read_all, line 79: frames.push(frame).  A push into a full Vec
\* allocates, and a failed allocation ends the process: the record is out
\* of the queue and no call returns.
ReadAllPush(v) ==
  /\ ConsumerAt("ra_push")
  /\ ~VecFull(Len(frames)) => v = "ok"
  /\ IF v = "ok"
       THEN /\ frames' = Push(frames, c_rec)
            /\ c_rec' = 0
            /\ pc' = [pc EXCEPT !["consumer"] = "ra_next"]
            /\ UNCHANGED phase
       ELSE /\ phase' = "aborted"
            /\ UNCHANGED <<frames, c_rec, pc>>
  /\ UNCHANGED <<size, needs_drop, alloc, records, read_index, write_index,
                 storage, ret, d, pvars, c_op, c_cr, c_next, mvars, gvars>>

\* front_ptr(), lines 84-85: load read_index (relaxed)
FrontLoadRead ==
  /\ ConsumerAt("idle")
  /\ c_op' = "front_ptr"
  /\ c_cr' = read_index
  /\ ret' = [ret EXCEPT !["consumer"] = NoRet]
  /\ pc' = [pc EXCEPT !["consumer"] = "f_check"]
  /\ ConsumerCall(<<>>)
  /\ UNCHANGED <<qvars, d, pvars, c_next, c_rec, frames, mvars, unlimited,
                 offered, written, delivered, released, write_results,
                 wa_results>>

\* faulty variant of front_ptr: a reference to the slot after current_read
FrontSlot_next(cur) == NextRecord(cur, size)

\* the slot front_ptr refers to (line 89)
FrontSlot(cur) == cur

\* front_ptr, lines 86-90: load write_index (acquire); None, or a reference
\* to the slot at current_read
FrontLoadWrite ==
  /\ ConsumerAt("f_check")
  /\ pc' = [pc EXCEPT !["consumer"] = "idle"]
  /\ ret' = [ret EXCEPT !["consumer"] =
               IF ReadEmpty(c_cr, LoadWriteIndex("consumer"))
                 THEN <<"front_ptr", NoSlot>>
               ELSE <<"front_ptr", FrontSlot(c_cr)>>]
  /\ c_op' = "none" /\ c_cr' = 0
  /\ UNCHANGED <<qvars, d, pvars, c_next, c_rec, frames, mvars, gvars>>

\* pop_front(), lines 93-94: load read_index (relaxed)
PopLoadRead ==
  /\ ConsumerAt("idle")
  /\ c_op' = "pop_front"
  /\ c_cr' = read_index
  /\ ret' = [ret EXCEPT !["consumer"] = NoRet]
  /\ pc' = [pc EXCEPT !["consumer"] = "p_check"]
  /\ ConsumerCall(<<>>)
  /\ UNCHANGED <<qvars, d, pvars, c_next, c_rec, frames, mvars, unlimited,
                 offered, written, delivered, released, write_results,
                 wa_results>>

\* faulty variant of pop_front: the emptiness assertion is left out
PopLoadWrite_unchecked ==
  /\ ConsumerAt("p_check")
  /\ c_next' = NextRecord(c_cr, size)
  /\ pc' = [pc EXCEPT !["consumer"] = "p_drop"]
  /\ UNCHANGED <<qvars, ret, d, pvars, c_op, c_cr, c_rec, frames, mvars, gvars>>

\* pop_front, lines 95-100: load write_index (acquire); on an empty queue
\* assert_ne! panics, and the call ends by unwinding instead of returning
PopLoadWrite ==
  /\ ConsumerAt("p_check")
  /\ IF ReadEmpty(c_cr, LoadWriteIndex("consumer"))
       THEN /\ pc' = [pc EXCEPT !["consumer"] = "idle"]
            /\ ret' = [ret EXCEPT !["consumer"] = Panicked]
            /\ c_op' = "none" /\ c_cr' = 0
            /\ UNCHANGED c_next
       ELSE /\ c_next' = NextRecord(c_cr, size)
            /\ pc' = [pc EXCEPT !["consumer"] = "p_drop"]
            /\ UNCHANGED <<ret, c_op, c_cr>>
  /\ UNCHANGED <<qvars, d, pvars, c_rec, frames, mvars, gvars>>

\* pop_front, line 102: ptr::drop_in_place(self.records.add(current_read))
PopDrop ==
  /\ ConsumerAt("p_drop")
  /\ c_rec' = records[c_cr]
  /\ records' = [records EXCEPT ![c_cr] = Uninit]
  /\ released' = Bump(released, records[c_cr])
  /\ pc' = [pc EXCEPT !["consumer"] = "p_store"]
  /\ UNCHANGED <<size, needs_drop, alloc, read_index, write_index, storage,
                 phase, ret, d, pvars, c_op, c_cr, c_next, frames, mvars,
                 unlimited, offered, written, delivered, write_results,
                 wa_results, c_quiet, c_snap>>

\* pop_front, line 104: store read_index (release) and return
PopStore ==
  /\ ConsumerAt("p_store")
  /\ read_index' = c_next
  /\ delivered' = Rec(delivered, c_rec)
  /\ pc' = [pc EXCEPT !["consumer"] = "idle"]
  /\ ret' = [ret EXCEPT !["consumer"] = <<"pop_front", 0>>]
  /\ c_op' = "none" /\ c_cr' = 0 /\ c_next' = 0 /\ c_rec' = 0
  /\ UNCHANGED <<size, needs_drop, alloc, records, write_index, storage,
                 phase, d, pvars, frames, mvars, unlimited, offered, written,
                 released, write_results, wa_results, c_quiet, c_snap>>

\* ---- the diagnostics, callable from either thread ------------------------
ThreadAt(t, l) == phase = "alive" /\ pc[t] = l

\* the observers: a step of the producer ends the consumer's quiet period
DiagStep(t) ==
  /\ c_quiet' = IF unlimited THEN c_quiet
                ELSE IF t = "producer" THEN FALSE
                ELSE IF pc[t] = "idle" THEN ProducerQuiet
                ELSE c_quiet
  /\ c_snap' = IF ~unlimited /\ t = "consumer" /\ pc[t] = "idle"
                THEN <<>> ELSE c_snap
  /\ UNCHANGED <<qvars, pvars, cvars, mvars, unlimited, offered, written,
                 delivered, released, write_results, wa_results>>

\* the first load of a diagnostic, of read_index (lines 108, 117) or of
\* write_index (line 112)
DiagFirst(t, l, v) ==
  /\ ThreadAt(t, "idle")
  /\ d' = [d EXCEPT ![t] = v]
  /\ pc' = [pc EXCEPT ![t] = l]
  /\ ret' = [ret EXCEPT ![t] = NoRet]
  /\ DiagStep(t)

\* the second load of a diagnostic and its return
DiagSecond(t, l, op, v) ==
  /\ ThreadAt(t, l)
  /\ d' = [d EXCEPT ![t] = 0]
  /\ pc' = [pc EXCEPT ![t] = "idle"]
  /\ ret' = [ret EXCEPT ![t] = <<op, v>>]
  /\ DiagStep(t)

\* is_empty(), line 108
IsEmptyLoadRead(t) == DiagFirst(t, "d_is_empty", LoadReadIndex(t))

IsEmptyLoadWrite(t) ==
  DiagSecond(t, "d_is_empty", "is_empty",
             is_empty_of(d[t], LoadWriteIndex(t)))

\* is_full(), lines 112-113
IsFullLoadWrite(t) == DiagFirst(t, "d_is_full", LoadWriteIndex(t))

IsFullLoadRead(t) ==
  DiagSecond(t, "d_is_full", "is_full",
             is_full_of(LoadReadIndex(t), d[t], size))

\* size_guess(), lines 117-123
SizeGuessLoadRead(t) == DiagFirst(t, "d_size_guess", LoadReadIndex(t))

SizeGuessLoadWrite(t) ==
  DiagSecond(t, "d_size_guess", "size_guess",
             size_guess_of(d[t], LoadWriteIndex(t), size))

\* capacity(), line 127
Capacity(t) ==
  /\ ThreadAt(t, "idle")
  /\ ret' = [ret EXCEPT ![t] = <<"capacity", capacity_of(size)>>]
  /\ UNCHANGED <<pc, d>>
  /\ DiagStep(t)

\* ---- the memory system --------------------------------------------------
\* the consumer's next Release store of read_index (lines 70, 104) reaches
\* the producer
ReadIndexVisible ==
  /\ phase = "alive"
  /\ read_seen # read_index
  /\ read_seen' = NextRecord(read_seen, size)
  /\ UNCHANGED <<qvars, write_seen, tvars, pvars, cvars, gvars>>

\* the producer's next Release store of write_index (line 49) reaches the
\* consumer
WriteIndexVisible ==
  /\ phase = "alive"
  /\ write_seen # write_index
  /\ write_seen' = NextRecord(write_seen, size)
  /\ UNCHANGED <<qvars, read_seen, tvars, pvars, cvars, gvars>>

\* ---- destruction --------------------------------------------------------
\* the slots after the loop of lines 139-144 ran over the indices in range
DropSlots(recs, range) ==
  [i \in DOMAIN recs |-> IF i \in SeqToSet(range) THEN Uninit ELSE recs[i]]

RECURSIVE BumpAll(_, _, _)
BumpAll(rel, recs, range) ==
  IF range = <<>> THEN rel
  ELSE BumpAll(Bump(rel, recs[Head(range)]), recs, Tail(range))

\* line 133: Drop returns at once for an element type without drop glue
DropReturnsEarly(nd) == ~nd

\* impl Drop for Spsc, lines 131-150.  No thread is inside a call.
Drop ==
  /\ phase = "alive"
  /\ \A t \in Threads : pc[t] = "idle"
  /\ phase' = "dropped"
  /\ IF DropReturnsEarly(needs_drop)
       THEN UNCHANGED <<records, storage, released>>
       ELSE LET range == DropRange(read_index, write_index, size)
            IN /\ records' = DropSlots(records, range)
               /\ released' = BumpAll(released, records, range)
               /\ storage' = "freed"
  /\ UNCHANGED <<size, needs_drop, alloc, read_index, write_index, tvars,
                 pvars, cvars, mvars, unlimited, offered, written, delivered,
                 write_results, wa_results, c_quiet, c_snap>>

\* ---- the system ---------------------------------------------------------
ProducerStep ==
  \/ WriteLoadWrite
  \/ WriteLoadRead
  \/ WriteConstruct
  \/ WriteStore
  \/ \E len \in 0..MaxBatch : WriteAllCall(len)
  \/ WriteAllNext

ConsumerStep ==
  \/ ReadLoadRead
  \/ \E v \in VecOutcomes : ReadAllCall(v)
  \/ ReadAllNext
  \/ ReadLoadWrite
  \/ ReadMove
  \/ ReadStore
  \/ \E v \in VecOutcomes : ReadAllPush(v)
  \/ FrontLoadRead
  \/ FrontLoadWrite
  \/ PopLoadRead
  \/ PopLoadWrite
  \/ PopDrop
  \/ PopStore

DiagnosticStep ==
  \/ \E t \in Threads : IsEmptyLoadRead(t)
  \/ \E t \in Threads : IsEmptyLoadWrite(t)
  \/ \E t \in Threads : IsFullLoadWrite(t)
  \/ \E t \in Threads : IsFullLoadRead(t)
  \/ \E t \in Threads : SizeGuessLoadRead(t)
  \/ \E t \in Threads : SizeGuessLoadWrite(t)
  \/ \E t \in Threads : Capacity(t)

MemoryStep == ReadIndexVisible \/ WriteIndexVisible

Next == ProducerStep \/ ConsumerStep \/ DiagnosticStep \/ MemoryStep \/ Drop

Spec == Init /\ [][Next]_vars

\* No concurrent activity: one thread of control, or two that hand the
\* queue over.  The calls of write and the calls of read_all do not
\* overlap, and a call begins when the index stores of the calls before it
\* have reached its thread.  The queue has up to MaxSize slots, or
\* DrainSlots; a read_all that has begun keeps running.
DrainInit == InitWith((0..MaxSize) \cup {DrainSlots}, FALSE)

HandedOver(t) ==
  pc[t] = "idle" => (read_seen = read_index /\ write_seen = write_index)

DrainProducer ==
  /\ pc["consumer"] = "idle"
  /\ HandedOver("producer")
  /\ \/ WriteLoadWrite
     \/ WriteLoadRead
     \/ WriteConstruct
     \/ WriteStore

DrainConsumer ==
  /\ pc["producer"] = "idle"
  /\ HandedOver("consumer")
  /\ \/ \E v \in VecOutcomes : ReadAllCall(v)
     \/ ReadAllNext
     \/ ReadLoadWrite
     \/ ReadMove
     \/ ReadStore
     \/ \E v \in VecOutcomes : ReadAllPush(v)

DrainNext == DrainProducer \/ DrainConsumer \/ MemoryStep

DrainRuns == pc["consumer"] # "idle" /\ DrainConsumer

DrainSpec ==
  /\ DrainInit
  /\ [][DrainNext]_vars
  /\ WF_vars(DrainRuns)

\* ---- properties ---------------------------------------------------------
Alive == phase = "alive"

\* the oldest value written and not yet removed by the consumer
Oldest == written[Len(delivered) + 1]

\* C1: FIFO delivery.  At every moment of every interleaving the values
\* removed by the consumer (moved out by read / read_all, discarded by
\* pop_front) are a prefix of the values whose write returned true: same
\* order, no gap, no duplicate, nothing that was never written.
C1_FifoDelivery == IsPrefix(delivered, written)

C1_Witness ==
  /\ Len(delivered) >= 3
  /\ delivered = written
  /\ size = 2

\* C2: capacity law.  As long as the consumer has removed nothing, the k-th
\* write call on a fresh queue of n slots returns true for k <= n-1 and
\* false for k = n; capacity() returns n-1.
C2_CapacityLaw ==
  /\ (Alive /\ delivered = <<>>) =>
       \A k \in 1..Len(write_results) :
         k <= size => write_results[k] = (k <= size - 1)
  /\ \A t \in Threads : ret[t][1] = "capacity" => ret[t][2] = size - 1

C2_Witness ==
  /\ delivered = <<>>
  /\ size >= 2
  /\ Len(write_results) = size
  /\ write_results[size] = FALSE
  /\ ret["consumer"][1] = "capacity"

\* C3: no slot race.  The producer constructs only into a slot that holds
\* no live element and that the consumer is not moving out or destroying;
\* the consumer moves out, destroys or holds a reference to only a slot
\* whose element is live and whose construction the producer has finished.
\* The accesses are also ordered by the index stores the threads have
\* seen: when the producer decides to construct into a slot, the store of
\* read_index that followed the last release of that slot has reached it,
\* and when the consumer decides to take a slot, the store of write_index
\* that followed its construction has reached the consumer.
ReleasesUnseen == SeqToSet(DropRange(read_seen, read_index, size))

ConstructionsUnseen == SeqToSet(DropRange(write_seen, write_index, size))

ProducerTakesSlot ==
  pc["producer"] = "w_check" /\ pc'["producer"] = "w_construct"

ConsumerTakesSlot ==
  \/ pc["consumer"] = "r_check" /\ pc'["consumer"] = "r_move"
  \/ pc["consumer"] = "p_check" /\ pc'["consumer"] = "p_drop"
  \/ /\ pc["consumer"] = "f_check"
     /\ pc'["consumer"] = "idle"
     /\ ret'["consumer"][2] # NoSlot

SlotsUnraced ==
  /\ pc["producer"] = "w_construct" =>
       /\ records[p_cw] = Uninit
       /\ ~(pc["consumer"] \in {"r_move", "r_store", "p_drop", "p_store"}
            /\ c_cr = p_cw)
  /\ pc["consumer"] \in {"r_move", "p_drop"} =>
       /\ records[c_cr] # Uninit
       /\ ~(pc["producer"] \in {"w_construct", "w_store"} /\ p_cw = c_cr)
  /\ (Alive /\ pc["consumer"] = "idle" /\ ret["consumer"][1] = "front_ptr"
      /\ ret["consumer"][2] # NoSlot) =>
       /\ records[ret["consumer"][2]] # Uninit
       /\ ~(pc["producer"] \in {"w_construct", "w_store"}
            /\ p_cw = ret["consumer"][2])

C3_NoSlotRace ==
  /\ []SlotsUnraced
  /\ [][/\ ProducerTakesSlot => p_cw \notin ReleasesUnseen
        /\ ConsumerTakesSlot => c_cr \notin ConstructionsUnseen]_vars

C3_Witness ==
  /\ pc["producer"] = "w_construct"
  /\ pc["consumer"] \in {"r_move", "p_drop"}
  /\ p_cw # c_cr
  /\ Len(delivered) >= 1

\* C4: exactly-once lifecycle.  No written value is ever released twice,
\* and once the queue is dropped every written value has been released
\* exactly once and no slot holds a live element.
C4_ExactlyOnce ==
  /\ \A v \in 1..MaxWrites : released[v] <= 1
  /\ phase = "dropped" =>
       /\ \A v \in SeqToSet(written) : released[v] = 1
       /\ \A i \in DOMAIN records : records[i] = Uninit

\* C5: storage release.  For every element type, once the queue is
\* dropped its storage block has been freed, after the live elements were
\* destroyed.
C5_StorageFreed ==
  phase = "dropped" =>
    /\ storage = "freed"
    /\ Contents = <<>> \/ \A k \in 1..Len(Contents) : Contents[k] = Uninit

\* C6: rejected operations change nothing.  The steps of a write that
\* finds the queue full (its result is false), of a read that finds it
\* empty and of a front_ptr that finds it empty (their result is nothing)
\* leave read_index, write_index and every slot as they were.
WriteRejected ==
  /\ pc["producer"] = "w_check"
  /\ pc'["producer"] \in {"idle", "wa_next"}

ReadRejected ==
  /\ pc["consumer"] = "r_check"
  /\ c_op = "read"
  /\ pc'["consumer"] = "idle"

FrontRejected ==
  /\ pc["consumer"] = "f_check"
  /\ pc'["consumer"] = "idle"
  /\ c_cr = write_index

CallBegins ==
  \/ pc["producer"] = "idle" /\ pc'["producer"] = "w_check"
  \/ pc["consumer"] = "idle" /\ pc'["consumer"] \in {"r_check", "f_check"}

C6_RejectedChangesNothing ==
  [][/\ WriteRejected =>
          /\ write_results' = Append(write_results, FALSE)
          /\ p_op = "write" => ret'["producer"] = <<"write", FALSE>>
          /\ WriteFull(NextRecord(write_index, size),
                       LoadReadIndex("producer"))
     /\ ReadRejected => ret'["consumer"] = <<"read", None>>
     /\ FrontRejected => ret'["consumer"] = <<"front_ptr", NoSlot>>
     /\ (WriteRejected \/ ReadRejected \/ FrontRejected \/ CallBegins) =>
          UNCHANGED <<read_index, write_index, records>>]_vars

C6_Witness ==
  /\ ret["producer"][1] = "write"
  /\ ret["producer"][2] = FALSE
  /\ ret["consumer"][1] = "front_ptr"
  /\ ret["consumer"][2] = NoSlot

\* C7: write_all stops at the first full report.  Within one write_all
\* call no value is enqueued after one of the earlier values of the batch
\* was rejected, so the enqueued values are a contiguous prefix of the
\* input.
C7_WriteAllPrefix ==
  \A i, j \in 1..Len(wa_results) :
    (i < j /\ wa_results[i] = FALSE) => wa_results[j] = FALSE

\* C8: non-blocking, bounded time.  The number of steps a call takes does
\* not depend on what the other thread does during the call.  Only
\* write_all and read_all loop; write_all makes one iteration for each
\* element of its argument.  The queue never holds more than capacity()
\* elements, so a read_all whose loop does not follow the producer has
\* collected at most capacity() elements at any time.
C8_BoundedCalls ==
  (Alive /\ c_op = "read_all") => Len(frames) <= capacity_of(size)

\* C9: drain completeness.  A read_all that ran with no producer activity
\* (the producer inside no call, its writes all visible to the consumer)
\* returned exactly the values that were queued when it began, oldest
\* first, and left the queue empty: is_empty() holds, size_guess() is 0
\* and the emptiness test of a further read succeeds.
DrainReturned ==
  Alive /\ pc["consumer"] = "idle" /\ ret["consumer"][1] = "read_all"

DrainComplete ==
  (DrainReturned /\ c_quiet) =>
    /\ ret["consumer"][2] = c_snap
    /\ Len(c_snap) <= size - 1
    /\ \A k \in 1..Len(c_snap) : c_snap[k] = written[Len(written) - Len(c_snap) + k]
    /\ is_empty_of(read_index, write_index)
    /\ size_guess_of(read_index, write_index, size) = 0
    /\ ReadEmpty(read_index, write_index)

\* the consumer is about to call, or is inside a read_all, with no
\* producer activity
QuietDrain ==
  /\ Alive
  /\ \/ pc["consumer"] = "idle" /\ ProducerQuiet
     \/ c_op = "read_all" /\ c_quiet

Aborted == phase = "aborted"

\* the allocation of the Vec of read_all fails: at the call (line 77), or
\* at the push of a record into a full Vec (line 79)
VecAllocationFails ==
  \/ pc["consumer"] = "idle" /\ UNCHANGED <<read_index, frames>>
  \/ /\ pc["consumer"] = "ra_push" /\ c_op = "read_all"
     /\ VecFull(Len(frames))
     /\ UNCHANGED <<read_index, frames>>

PeekIsOldest ==
  (Alive /\ pc["consumer"] = "idle" /\ ret["consumer"][1] = "front_ptr"
   /\ ret["consumer"][2] # NoSlot) =>
    /\ ret["consumer"][2] = read_index
    /\ Len(written) > Len(delivered)
    /\ records[read_index] = Oldest

RemovalDone(l) == pc["consumer"] = l /\ pc'["consumer"] # l

RemovalEffect ==
  /\ read_index' = NextRecord(read_index, size)
  /\ write_index' = write_index
  /\ records' = records
  /\ records[read_index] = Uninit
  /\ released[Oldest] = 1
  /\ delivered' = Append(delivered, Oldest)

C10_PeekPopConsistency ==
  /\ []PeekIsOldest
  /\ [][(RemovalDone("p_store") \/ RemovalDone("r_store")) => RemovalEffect]_vars

C10_Witness ==
  /\ pc["consumer"] = "idle"
  /\ ret["consumer"][1] = "front_ptr"
  /\ ret["consumer"][2] = 1
  /\ Len(delivered) >= 1
  /\ records[1] = Oldest


\* C11: empty/full mutual exclusivity.  In every state of a constructed
\* queue the emptiness condition and the fullness condition do not hold
\* together, neither of the two indices as they are nor of the two indices
\* as either thread sees them, and no pair of index values in range
\* satisfies both.
C11_EmptyFullExclusive ==
  phase # "new_panicked" =>
    /\ ~(is_empty_of(read_index, write_index)
         /\ is_full_of(read_index, write_index, size))
    /\ \A t \in Threads :
         ~(is_empty_of(LoadReadIndex(t), LoadWriteIndex(t))
           /\ is_full_of(LoadReadIndex(t), LoadWriteIndex(t), size))
    /\ \A r, w \in 0..(size - 1) :
         ~(is_empty_of(r, w) /\ is_full_of(r, w, size))

C11_Witness ==
  /\ Alive
  /\ is_full_of(read_index, write_index, size)
  /\ write_index < read_index
  /\ ret["producer"][1] = "is_full"
  /\ ret["producer"][2] = TRUE
  /\ ret["consumer"][1] = "is_empty"
  /\ ret["consumer"][2] = FALSE

\* C12: pop_front on an empty queue.  The step of pop_front that tests
\* for emptiness while read_index equals write_index ends the call in a
\* panic instead of a return; and every panic comes from that test of
\* pop_front and changes no index, destroys no slot and releases no
\* element.
PopChecks ==
  /\ pc["consumer"] = "p_check"
  /\ pc'["consumer"] # "p_check"

PanicBegins == ret'["consumer"] = Panicked /\ ret["consumer"] # Panicked

C12_PopEmptyPanics ==
  /\ [][(PopChecks /\ read_index = write_index) =>
          /\ ret'["consumer"] = Panicked
          /\ pc'["consumer"] = "idle"]_vars
  /\ [][PanicBegins =>
          /\ PopChecks
          /\ UNCHANGED <<read_index, write_index, records, released,
                         delivered>>]_vars
  /\ [](ret["producer"] # Panicked)

C12_Witness ==
  /\ pc["consumer"] = "idle"
  /\ ret["consumer"] = Panicked
  /\ Len(delivered) >= 1
  /\ read_index = write_index
  /\ read_index # 0

\* C13 as stated: new(n) panics without a queue exactly when n < 2, and
\* returns a queue for every n >= 2.
C13_PanicsOnlyBelowTwo == (size < 2) <=> (phase = "new_panicked")

\* C13, amended: new(n) panics without a queue exactly when n < 2, or the
\* layout of the block is invalid, or the allocation fails (then no
\* operation ever runs); when it returns a queue then, as long as no write
\* has begun, both indices are 0, no slot is live, is_empty() holds,
\* is_full() does not and size_guess() is 0.
NothingWritten ==
  /\ offered = 0
  /\ pc["producer"] \notin {"w_check", "w_construct", "w_store", "wa_next"}

C13_Construction ==
  /\ (phase = "new_panicked") <=>
       (size < 2 \/ alloc \in {"invalid_layout", "null"})
  /\ size < 2 => phase = "new_panicked" /\ alloc = "not_reached"
  /\ phase = "new_panicked" =>
       /\ storage = "none"
       /\ \A t \in Threads : pc[t] = "idle" /\ ret[t] = NoRet
       /\ offered = 0
  /\ (phase # "new_panicked" /\ NothingWritten) =>
       /\ read_index = 0
       /\ write_index = 0
       /\ \A i \in 0..(size - 1) : records[i] = Uninit
       /\ DOMAIN records = 0..(size - 1)
       /\ is_empty_of(read_index, write_index)
       /\ ~is_full_of(read_index, write_index, size)
       /\ size_guess_of(read_index, write_index, size) = 0

C13_Witness ==
  /\ Alive
  /\ size = 2
  /\ alloc = "ok"
  /\ NothingWritten
  /\ ret["consumer"][1] = "is_full"
  /\ ret["consumer"][2] = FALSE
  /\ ret["producer"][1] = "size_guess"
  /\ ret["producer"][2] = 0


\* C14: index range.  In every state of a constructed queue both indices
\* are in 0..capacity_slots-1, and so is every index used for a slot
\* access by write, read, front_ptr, pop_front and the loop of Drop, and
\* every index about to be stored.
InRange(i) == i \in 0..(size - 1)

C14_IndexRange ==
  phase # "new_panicked" =>
    /\ InRange(read_index)
    /\ InRange(write_index)
    /\ InRange(read_seen)
    /\ InRange(write_seen)
    /\ pc["producer"] \in {"w_construct", "w_store"} =>
         InRange(p_cw) /\ InRange(p_next)
    /\ pc["consumer"] \in {"r_move", "r_store", "p_drop", "p_store"} =>
         InRange(c_cr) /\ InRange(c_next)
    /\ pc["consumer"] = "f_check" => InRange(c_cr)
    /\ (ret["consumer"][1] = "front_ptr" /\ ret["consumer"][2] # NoSlot) =>
         InRange(ret["consumer"][2])
    /\ \A i \in SeqToSet(DropRange(read_index, write_index, size)) :
         InRange(i)

C14_Witness ==
  /\ Alive
  /\ size = 3
  /\ write_index = 0
  /\ read_index = 2
  /\ pc["consumer"] = "r_store"
  /\ c_next = 0

\* C15 as stated: in every state of a live queue exactly the slots of the
\* circular range [read_index, write_index) hold live elements.
LiveSet == {i \in DOMAIN records : records[i] # Uninit}

RangeSet == SeqToSet(DropRange(read_index, write_index, size))

C15_LiveRangeAlways == Alive => LiveSet = RangeSet

\* C15, amended: the live slots are those of [read_index, write_index),
\* plus the slot at write_index while the producer is between its
\* construction and its store of write_index, minus the slot at read_index
\* while the consumer is between its move-out or destruction and its store
\* of read_index.  Outside these two windows the stated relation holds.
Constructed == IF pc["producer"] = "w_store" THEN {write_index} ELSE {}

Vacated ==
  IF pc["consumer"] \in {"r_store", "p_store"} THEN {read_index} ELSE {}

C15_LiveRange ==
  Alive =>
    /\ LiveSet = (RangeSet \cup Constructed) \ Vacated
    /\ pc["producer"] = "w_store" => write_index \notin RangeSet
    /\ pc["consumer"] \in {"r_store", "p_store"} => read_index \in RangeSet

C15_Witness ==
  /\ Alive
  /\ pc["producer"] = "w_store"
  /\ pc["consumer"] \in {"r_store", "p_store"}
  /\ LiveSet # RangeSet
  /\ Cardinality(RangeSet) = 1
  /\ read_index > 0

\* C16: cursor ownership.  No step of the producer changes read_index, no
\* step of the consumer changes write_index; the steps of front_ptr and of
\* the diagnostics change neither index and no slot; an index changes only
\* in the store step of a successful write (write_index) or of a read or
\* pop_front (read_index), and then by exactly one slot modulo size.
StepOf(t) == pc'[t] # pc[t] \/ ret'[t][1] # ret[t][1]

DiagPcs == {"d_is_empty", "d_is_full", "d_size_guess"}

ReadOnlyStep ==
  \/ \E t \in Threads :
       \/ pc[t] \in DiagPcs /\ pc'[t] # pc[t]
       \/ pc'[t] \in DiagPcs /\ pc'[t] # pc[t]
       \/ ret'[t][1] = "capacity" /\ ret[t][1] # "capacity"
  \/ pc["consumer"] = "f_check" /\ pc'["consumer"] # "f_check"
  \/ pc'["consumer"] = "f_check" /\ pc["consumer"] # "f_check"

C16_CursorOwnership ==
  [][/\ StepOf("producer") => read_index' = read_index
     /\ StepOf("consumer") => write_index' = write_index
     /\ ReadOnlyStep => UNCHANGED <<read_index, write_index, records>>
     /\ write_index' # write_index =>
          /\ pc["producer"] = "w_store"
          /\ write_index' = (write_index + 1) % size
     /\ read_index' # read_index =>
          /\ pc["consumer"] \in {"r_store", "p_store"}
          /\ read_index' = (read_index + 1) % size]_vars

C16_Witness ==
  /\ Alive
  /\ size = 3
  /\ read_index = 0
  /\ write_index = 0
  /\ Len(delivered) = 3
  /\ ret["producer"][1] = "capacity"
  /\ ret["consumer"][1] = "front_ptr"


\* C17: occupancy.  Whenever no operation is in flight, the circular
\* distance size_guess computes from read_index to write_index is the
\* number of values written successfully and not yet removed, and a
\* size_guess() call whose loads return the two indices as they are,
\* while the other thread is inside no call, returns that number; the
\* number is between 0 and capacity() in every state of a live queue.
TrueCount == Len(written) - Len(delivered)

Quiescent == \A t \in Threads : pc[t] = "idle"

SizeGuessReturns(t) == pc[t] = "d_size_guess" /\ pc'[t] = "idle"

LoadsCurrent(t) ==
  /\ \A u \in Threads \ {t} : pc[u] = "idle"
  /\ d[t] = read_index
  /\ LoadWriteIndex(t) = write_index

Occupancy ==
  Alive =>
    /\ Quiescent =>
         /\ size_guess_of(read_index, write_index, size) = TrueCount
         /\ Cardinality(LiveSet) = TrueCount
    /\ TrueCount >= 0
    /\ TrueCount <= capacity_of(size)

C17_Occupancy ==
  /\ []Occupancy
  /\ [][\A t \in Threads :
          (SizeGuessReturns(t) /\ LoadsCurrent(t)) =>
            ret'[t] = <<"size_guess", TrueCount>>]_vars

C17_Witness ==
  /\ Alive
  /\ Quiescent
  /\ size = 3
  /\ read_index = 2
  /\ write_index = 0
  /\ TrueCount = 1
  /\ read_seen = read_index
  /\ write_seen = write_index
  /\ ret["producer"] = <<"size_guess", 1>>
  /\ ret["consumer"] = <<"size_guess", 1>>

\* C18: stale snapshots.  The value a size_guess() call returns is between
\* 0 and capacity(); returned to the producer it is not smaller, and
\* returned to the consumer not larger, than the number of queued elements
\* (by the indices, and by the live slots) at the moment of the return.
C18_StaleSnapshot ==
  [][\A t \in Threads : SizeGuessReturns(t) =>
       /\ ret'[t][1] = "size_guess"
       /\ ret'[t][2] \in 0..capacity_of(size)
       /\ t = "producer" =>
            /\ ret'[t][2] >= TrueCount'
            /\ ret'[t][2] >= Cardinality(LiveSet')
       /\ t = "consumer" =>
            /\ ret'[t][2] <= TrueCount'
            /\ ret'[t][2] <= Cardinality(LiveSet')]_vars

C18_Witness ==
  /\ Alive
  /\ pc["producer"] = "d_size_guess"
  /\ d["producer"] # read_index
  /\ write_index < read_index
  /\ pc["consumer"] = "idle"

\* C19 as stated: linearizability against a bounded FIFO of capacity
\* size - 1.  The
\* abstract queue is the written values not yet removed.  The store step of
\* a successful write appends its value to an abstract queue that is not
\* full; the store step of a read or pop_front removes the head, which is
\* the value obtained, from a non-empty one; the load step in which a write
\* is rejected finds it holding size - 1 values; the load step in which
\* read, read_all, front_ptr or pop_front finds nothing finds it empty;
\* no other step changes it.
AbsQ == SubSeq(written, Len(delivered) + 1, Len(written))

LinWriteOk == pc["producer"] = "w_store" /\ pc'["producer"] # "w_store"

LinWriteFull ==
  /\ pc["producer"] = "w_check"
  /\ pc'["producer"] \in {"idle", "wa_next"}

LinRemove ==
  /\ pc["consumer"] \in {"r_store", "p_store"}
  /\ pc'["consumer"] # pc["consumer"]

LinEmpty ==
  \/ pc["consumer"] = "r_check" /\ pc'["consumer"] = "idle"
  \/ pc["consumer"] = "p_check" /\ pc'["consumer"] = "idle"
  \/ /\ pc["consumer"] = "f_check"
     /\ pc'["consumer"] = "idle"
     /\ ret'["consumer"][2] = NoSlot

C19_Linearizable ==
  [][/\ LinWriteOk =>
          /\ Len(AbsQ) < size - 1
          /\ AbsQ' = Append(AbsQ, p_val)
     /\ LinWriteFull =>
          /\ Len(AbsQ) = size - 1
          /\ AbsQ' = AbsQ
     /\ LinRemove =>
          /\ AbsQ # <<>>
          /\ c_rec = Head(AbsQ)
          /\ AbsQ' = Tail(AbsQ)
          /\ c_op = "read" => ret'["consumer"] = <<"read", Head(AbsQ)>>
     /\ LinEmpty =>
          /\ AbsQ = <<>>
          /\ AbsQ' = AbsQ
     /\ ~(LinWriteOk \/ LinRemove) => AbsQ' = AbsQ]_vars

\* C19, amended: the successful operations refine the bounded FIFO (the
\* store step of a successful write appends to an abstract queue that is
\* not full, the store step of a read or pop_front removes its head, no
\* other step changes it), and a rejection is judged on the index the
\* thread has seen: the load step in which a write is rejected finds
\* size - 1 values in the queue as the producer sees it (without the
\* removals whose store of read_index has not reached it), the load step
\* in which the consumer finds nothing finds empty the queue as the
\* consumer sees it (without the writes whose store of write_index has not
\* reached it).
Behind(seen, index) == (index - seen + size) % size

SeenByProducer ==
  SubSeq(written, Len(delivered) - Behind(read_seen, read_index) + 1,
         Len(written))

SeenByConsumer ==
  SubSeq(written, Len(delivered) + 1,
         Len(written) - Behind(write_seen, write_index))

C19_SeenStateRefinement ==
  /\ [](Alive =>
          /\ Len(AbsQ) <= size - 1
          /\ Len(SeenByProducer) = Len(AbsQ) + Behind(read_seen, read_index)
          /\ Len(SeenByProducer) <= size - 1
          /\ Len(SeenByConsumer) = Len(AbsQ) - Behind(write_seen, write_index)
          /\ Len(SeenByConsumer) >= 0)
  /\ [][/\ LinWriteOk =>
             /\ Len(AbsQ) < size - 1
             /\ AbsQ' = Append(AbsQ, p_val)
        /\ LinWriteFull =>
             /\ Len(SeenByProducer) = size - 1
             /\ AbsQ' = AbsQ
        /\ LinRemove =>
             /\ AbsQ # <<>>
             /\ c_rec = Head(AbsQ)
             /\ AbsQ' = Tail(AbsQ)
             /\ c_op = "read" => ret'["consumer"] = <<"read", Head(AbsQ)>>
        /\ LinEmpty =>
             /\ SeenByConsumer = <<>>
             /\ AbsQ' = AbsQ
        /\ ~(LinWriteOk \/ LinRemove) => AbsQ' = AbsQ]_vars

C19_Witness ==
  /\ Alive
  /\ Quiescent
  /\ ret["producer"] = <<"write", FALSE>>
  /\ Len(AbsQ) < size - 1
  /\ ret["consumer"] = <<"read", None>>
  /\ AbsQ # <<>>
  /\ read_seen # read_index
  /\ write_seen # write_index


\* ---- retrying callers ---------------------------------------------------
\* The producer calls write again and again (a rejected value is offered
\* anew), the consumer calls read again and again; each thread runs on its
\* own core and keeps taking steps, and every index store reaches the
\* other thread after a finite time.
RetryProducer ==
  \/ WriteLoadWrite
  \/ WriteLoadRead
  \/ WriteConstruct
  \/ WriteStore

RetryConsumer ==
  \/ ReadLoadRead
  \/ ReadLoadWrite
  \/ ReadMove
  \/ ReadStore

RetryNext == RetryProducer \/ RetryConsumer \/ MemoryStep

\* a producer with an endless supply of values, or with MaxWrites
\* numbered values (the observers then record which value went where)
RetryInit == InitLive \/ Init

RetrySpec ==
  /\ RetryInit
  /\ [][RetryNext]_vars
  /\ WF_vars(RetryProducer)
  /\ WF_vars(RetryConsumer)
  /\ WF_vars(ReadIndexVisible)
  /\ WF_vars(WriteIndexVisible)

\* C20: progress under retry.  On every constructed queue a retrying
\* producer with an endless supply has a write accepted again and again
\* and a retrying consumer obtains a value again and again, so the two are
\* never stuck with the producer rejected and the consumer finding nothing
\* for ever; every element stored in a slot is eventually handed to the
\* consumer, and the k-th value accepted is eventually the k-th value
\* returned.
WriteAccepted == ret["producer"][1] = "write" /\ ret["producer"][2] = TRUE

ReadObtained == ret["consumer"][1] = "read" /\ ret["consumer"][2] # None

Endless == Alive /\ unlimited

SlotLive(i) ==
  IF Alive /\ i \in DOMAIN records THEN records[i] # Uninit ELSE FALSE

SlotFreed(i) ==
  IF i \in DOMAIN records THEN records[i] = Uninit ELSE FALSE

AcceptedAt(k) == ~unlimited /\ Len(written) >= k

ReturnedAt(k) ==
  IF Len(delivered) >= k /\ Len(written) >= k
    THEN delivered[k] = written[k] ELSE FALSE

C20_ProgressUnderRetry ==
  /\ [](Endless => <>WriteAccepted)
  /\ [](Endless => <>ReadObtained)
  /\ \A i \in 0..(MaxSize - 1) :
       SlotLive(i) ~> (SlotFreed(i) /\ ReadObtained)
  /\ \A k \in 1..MaxWrites : AcceptedAt(k) ~> ReturnedAt(k)

C20_Witness ==
  /\ Endless
  /\ size = 3
  /\ read_index = 2
  /\ write_index = 1
  /\ pc["producer"] = "w_check"
  /\ pc["consumer"] = "r_check"

====
